---------------------------- MODULE Spec2Model ----------------------------
(***************************************************************************)
(* Field classification and enumeration (predicate_introspection), the     *)
(* per-sample port dispatch adapters (process_adapter, mono and poly),     *)
(* the Pd message router (pd::message_processor) and the pre-run pass of   *)
(* the ossia binding (oscr::process_before_run) of avendish.               *)
(*                                                                         *)
(* Positions are 0-based as in the source; TLA+ sequences are 1-based, so  *)
(* At(s, i) reads element i of an array or pack.                           *)
(***************************************************************************)
EXTENDS Integers, Sequences, FiniteSets, TLC

\* ------------------------------------------------------------------ bounds
\* Longest record (number of fields of an inputs / outputs aggregate).
MaxFields == 3

\* ------------------------------------------------------------- field shapes
\* The structural shapes a field can have, as far as the capability
\* predicates tell them apart.
FieldKinds == {"audio_sample", "parameter", "midi"}

\* A capability predicate P<Field> is decided by the field's shape alone:
\* it is modelled by the set of shapes that satisfy it.
Predicates == SUBSET FieldKinds

RECURSIVE SeqsUpTo(_, _)
SeqsUpTo(S, n) ==
  IF n = 0 THEN {<<>>}
  ELSE LET shorter == SeqsUpTo(S, n - 1)
       IN shorter \cup {Append(s, x) : s \in {t \in shorter : Len(t) = n - 1}, x \in S}

Records == SeqsUpTo(FieldKinds, MaxFields)

At(s, i) == s[i + 1]

\* ---------------------------------------------------------------- state
VARIABLES
  \* classifier: the record type T, the predicate P, and the tables that
  \* predicate_introspection<T, P> holds as static constexpr members
  type, P, index_map,
  \* the last map<Idx>() / unmap<Idx>() evaluation or enumerator call: name,
  \* argument, result
  cop, carg, cret,
  \* whether T is avnd::dummy, the empty-record sentinel
  dummy,
  \* the invocations of the callback the last enumerator call made, in order
  invoked

cvars == <<type, P, index_map, cop, carg, cret, dummy, invoked>>

\* ------------------------------------------------------- struct_reflection
\* matches_predicate<T, P, IntT>: P applied to the IntT-th tuple element.
\* (faulty variant: the predicate's result inverted)
matches_predicate_neg(T, Pr, IntT) == At(T, IntT) \notin Pr
matches_predicate(T, Pr, IntT) == At(T, IntT) \in Pr

\* indices: typed_index_sequence_t<make_index_sequence<tuple_size_v<type>>>,
\* the positions 0 .. count-1 in declaration order.
indices(T) == [j \in 1..Len(T) |-> j - 1]

\* mp_copy_if over a list: keeps, in order, the elements that satisfy the
\* predicate, appending each to the result.
RECURSIVE mp_copy_if(_, _, _)
\* (faulty variant: each kept element is put after the ones that follow it)
mp_copy_if_prepend(L, T, Pr) ==
  IF L = <<>> THEN <<>>
  ELSE LET rest == mp_copy_if(Tail(L), T, Pr)
       IN IF matches_predicate(T, Pr, Head(L)) THEN Append(rest, Head(L)) ELSE rest
mp_copy_if(L, T, Pr) ==
  IF L = <<>> THEN <<>>
  ELSE LET rest == mp_copy_if(Tail(L), T, Pr)
       IN IF matches_predicate(T, Pr, Head(L)) THEN <<Head(L)>> \o rest ELSE rest

\* indices_n: the integer pack of the positions whose field satisfies P.
indices_n(T, Pr) == mp_copy_if(indices(T), T, Pr)

\* index_map = integer_sequence_to_array(indices_n{}), size = indices_n::size()
index_map_of(T, Pr) == indices_n(T, Pr)
size == Len(index_map)

\* index_of_element<N>(integer_sequence<Idx...>): position of the first
\* element equal to N, -1 when there is none.
RECURSIVE index_of_element_from(_, _, _)
index_of_element_from(N, Idx, k) ==
  IF Idx = <<>> THEN -1
  ELSE IF Head(Idx) = N THEN k
  ELSE index_of_element_from(N, Tail(Idx), k + 1)

\* (faulty variant: k is incremented before the comparison)
index_of_element_preinc(N, Idx) == index_of_element_from(N, Idx, 1)
index_of_element(N, Idx) == index_of_element_from(N, Idx, 0)

\* map<Idx>(): index_map[Idx]
map(Idx) == At(index_map, Idx)
\* unmap<Idx>(): index_of_element<Idx>(indices_n{})
unmap(Idx) == index_of_element(Idx, index_map)

\* =====================================================================
\* Per-sample port dispatch adapters (process_adapter<T>)
\* =====================================================================

\* ------------------------------------------------------------------ bounds
\* Most channels of a process call, most frames of a block, and most fields
\* of the inputs / outputs aggregate of a poly per-sample processor.
MaxChannels == 2
MaxFrames == 2
MaxPorts == 2

\* Host sample buffers: enough for every output channel to have storage of
\* its own next to the input channels.
Buffers == 0..(2 * MaxChannels - 1)

\* The sample the host put at frame j of buffer b.  The adapters move samples
\* and never branch on their value, so every cell is given a value of its own
\* (and none is 0, the value of a fresh field): a sample that ends up in the
\* wrong place is then told apart from the right one.
Tag(b, j) == 10 * (b + 1) + j

\* Shapes of an inputs / outputs aggregate of a per-sample processor.
PortKinds == {"audio_sample", "parameter"}
Shapes == SeqsUpTo(PortKinds, MaxPorts)

\* A freshly constructed field: value-initialised.
NewField(kind) == [kind |-> kind, v |-> 0]
NewFields(shape) == [j \in 1..Len(shape) |-> NewField(shape[j])]

\* One element of effect_container::full_state(): the effect (its own
\* state), its inputs and its outputs.
NewInstance(ishape, oshape) == [ins |-> NewFields(ishape), outs |-> NewFields(oshape), st |-> 0]

\* A mono per-sample processor: one audio sample port on each side, here
\* next to a control on the input side.
MonoIns == <<"parameter", "audio_sample">>
MonoOuts == <<"audio_sample">>

\* Injective channel -> buffer assignments of a given length.
InjectiveSeqs(len) ==
  {s \in [1..len -> Buffers] : \A a, b \in 1..len : s[a] = s[b] => a = b}

\* The call signatures a poly per-sample processing operation may accept
\* (lines 191-198 / 205-212, in priority order).
Signatures == <<"ins_outs", "ins", "outs", "none">>
Callables == {{Signatures[q] : q \in r..Len(Signatures)} : r \in 1..Len(Signatures)}

VARIABLES
  adapter,      \* which process_adapter specialisation the record selected
  mem,          \* host memory: buffer -> the samples of its frames
  mem_at_entry, \* host memory when process was entered
  in_ptr,       \* span<FP*> in:  channel -> buffer
  out_ptr,      \* span<FP*> out: channel -> buffer
  n,            \* frame count of the call
  pc,           \* position inside process
  i,            \* frame loop counter
  c,            \* channel loop counter (mono)
  effects_it,   \* iterator into full_state() (mono)
  input_buf,    \* the alloca'd scratch buffer (mono)
  effects,      \* the processor instances (poly: the single one)
  fx_kind,      \* mono: what the author's processing operation computes
  fx_accepts,   \* poly: the call signatures the author's callable accepts
  trace         \* what the call did so far, in program order

avars == <<adapter, mem, mem_at_entry, in_ptr, out_ptr, n, pc, i, c, effects_it,
           input_buf, effects, fx_kind, fx_accepts, trace>>

\* The Pd message router (pd::message_processor<T>), one object of the class.
VARIABLES
  inputs_t,        \* the value type of each field of T's inputs record
  callable,        \* whether implementation() is well-formed for T
  can_initialize,  \* avnd::can_initialize<T>
  life,            \* where the object is between obj_new and obj_free
  returned,        \* whether obj_new has handed the object to the host
  init_log,        \* what init did on this object, in program order
  inputs,          \* implementation.inputs: the value of each field
  inputs_at_entry, \* implementation.inputs when process was entered
  msg,              \* the event being routed (or the last one): s and argv
  rpc,             \* position inside process
  rlog             \* what process did for msg, in program order

rvars == <<inputs_t, callable, can_initialize, life, returned, init_log,
           inputs, inputs_at_entry, msg, rpc, rlog>>

\* The pre-run pass of the ossia binding (oscr::process_before_run) over the
\* inputs of one processor.
VARIABLES
  proc_type,         \* what each field of the inputs record is
  ctrl,              \* the value of each field (ctrl.value)
  inputs_set,        \* self.control.inputs_set: the bits that are set
  run_idx,           \* the field the pass calls operator() for next
  port,              \* the queue of the inlet of the last call (get_data())
  ctrl_before,       \* ctrl when the last call was entered
  inputs_set_before  \* inputs_set when the last call was entered

ovars == <<proc_type, ctrl, inputs_set, run_idx, port, ctrl_before, inputs_set_before>>

vars == <<cvars, avars, rvars, ovars>>

\* what the classifier, the adapters and the router each leave alone
nonClassifier == <<avars, rvars, ovars>>
nonAdapter == <<cvars, rvars, ovars>>
nonRouter == <<cvars, avars, ovars>>
nonPreRun == <<cvars, avars, rvars>>

\* An event of the trace: a "read" of in[ch][frame], a "write" of out[ch][frame]
\* (val: the sample), or an invocation "fx" of the processing operation (ch: the
\* instance's position in full_state(), val: what it was called with).
Ev(op, ch, frame, val) == [op |-> op, ch |-> ch, frame |-> frame, val |-> val]

\* in[ch][frame] and out[ch][frame] = v on the host memory
Load(m, ptr, ch, frame) == m[At(ptr, ch)][frame + 1]
Store(m, ptr, ch, frame, v) == [m EXCEPT ![At(ptr, ch)][frame + 1] = v]

\* ------------------------------------------------------ classifier actions
ClassifierInit ==
  /\ dummy \in BOOLEAN
  /\ type \in (IF dummy THEN {<<>>} ELSE Records)
  /\ P \in Predicates
  /\ index_map = index_map_of(type, P)
  /\ cop = "none" /\ carg = -1 /\ cret = -1
  /\ invoked = <<>>

\* map<Idx>() is consteval: an Idx outside [0, size) does not compile.
Map(Idx) ==
  /\ Idx \in 0..(size - 1)
  /\ cop' = "map" /\ carg' = Idx /\ cret' = map(Idx)
  /\ invoked' = <<>>
  /\ UNCHANGED <<type, P, index_map, dummy>>
  /\ UNCHANGED nonClassifier

\* unmap<Idx>() compiles only when the pack is non-empty and holds Idx
\* (the two static_asserts of index_of_element).
Unmap(Idx) ==
  /\ size > 0
  /\ index_of_element(Idx, index_map) >= 0
  /\ cop' = "unmap" /\ carg' = Idx /\ cret' = unmap(Idx)
  /\ invoked' = <<>>
  /\ UNCHANGED <<type, P, index_map, dummy>>
  /\ UNCHANGED nonClassifier

\* ------------------------------------------------------------ enumerators
\* One invocation of the callback: the full-record position of the field it
\* is given, and the predicate_index / field_index it is given (-1: none).
Call(Index, LocalIndex, FieldIndex) ==
  [field |-> Index, local |-> LocalIndex, full |-> FieldIndex]

\* (func(...), ...) over the pack Index...: one invocation per element of the
\* pack, left to right
Fold(pack) == [j \in 1..Len(pack) |-> Call(pack[j], -1, -1)]

\* ((void)(Index == k && (func(...), true)), ...) over the pack Index...
FoldEqual(pack, k) == Fold(SelectSeq(pack, LAMBDA Index : Index = k))

\* fields_introspection<T>::for_all and for_nth: every field of the record
fields_for_all ==
  IF dummy THEN <<>>
  ELSE IF Len(type) > 0 THEN Fold(indices(type)) ELSE <<>>

fields_for_nth(nn) ==
  IF dummy THEN <<>>
  ELSE IF Len(type) > 0 THEN FoldEqual(indices(type), nn) ELSE <<>>

\* mutation: for_all runs over every field of the record
for_all_unfiltered == fields_for_all

\* predicate_introspection<T, P>::for_all
for_all ==
  IF dummy THEN <<>>
  ELSE IF size > 0 THEN Fold(index_map) ELSE <<>>

\* mutation: n is taken for an index among the matching fields
for_nth_raw_local(nn) ==
  IF dummy THEN <<>>
  ELSE IF nn \in 0..(size - 1) THEN Fold(<<At(index_map, nn)>>) ELSE <<>>

\* for_nth_raw: n is a position in the full record
for_nth_raw(nn) ==
  IF dummy THEN <<>>
  ELSE IF size > 0 THEN FoldEqual(index_map, nn) ELSE <<>>

\* mutation: n is taken for a position in the full record
for_nth_mapped_raw(nn, oob) == for_nth_raw(nn)

\* for_nth_mapped: k = index_map[n]; for n outside [0, size) the array is read
\* out of bounds, and oob is what that read yields
for_nth_mapped(nn, oob) ==
  IF dummy THEN <<>>
  ELSE IF size > 0
       THEN LET k == IF nn \in 0..(size - 1) THEN At(index_map, nn) ELSE oob
            IN FoldEqual(index_map, k)
       ELSE <<>>

\* mutation: the callback is given the full-record index as predicate_index
for_all_n_full ==
  IF dummy THEN <<>>
  ELSE [j \in 1..size |-> Call(index_map[j], index_map[j], -1)]

\* for_all_n: the packs Index... and LocalIndex... (0 .. size - 1) are
\* expanded together
for_all_n ==
  IF dummy THEN <<>>
  ELSE IF size > 0 THEN [j \in 1..size |-> Call(index_map[j], j - 1, -1)] ELSE <<>>

\* for_all_n2: as for_all_n, with field_index<Index> as third argument
for_all_n2 ==
  IF size > 0 THEN [j \in 1..size |-> Call(index_map[j], j - 1, index_map[j])] ELSE <<>>

\* for_all_unless: (func(...) && ...) stops at the first field for which the
\* callback returns false; accept is the set of positions for which it
\* returns true
for_all_unless(accept) ==
  IF dummy THEN <<>>
  ELSE IF size > 0
       THEN LET refused == {j \in 1..size : index_map[j] \notin accept}
                last == IF refused = {} THEN size
                        ELSE CHOOSE j \in refused : \A q \in refused : j <= q
            IN Fold(SubSeq(index_map, 1, last))
       ELSE <<>>

\* what for_all_unless returns (1: true, 0: false; the dummy's returns nothing)
for_all_unless_result(accept) ==
  IF dummy THEN -1
  ELSE IF size > 0
       THEN IF \A j \in 1..size : index_map[j] \in accept THEN 1 ELSE 0
       ELSE 1

\* the arguments n the enumerators are called with: inside and outside the
\* record on both sides
NthArgs == -1..MaxFields

\* what every enumerator call leaves behind: its argument, its result and
\* the invocations it made
Enumerated(nn, result, made) ==
  /\ carg' = nn /\ cret' = result
  /\ invoked' = made
  /\ UNCHANGED <<type, P, index_map, dummy>>
  /\ UNCHANGED nonClassifier

FieldsForAll ==
  /\ cop' = "fields_for_all"
  /\ Enumerated(-1, -1, fields_for_all)

FieldsForNth(nn) ==
  /\ cop' = "fields_for_nth"
  /\ Enumerated(nn, -1, fields_for_nth(nn))

ForAll ==
  /\ cop' = "for_all"
  /\ Enumerated(-1, -1, for_all)

ForNthRaw(nn) ==
  /\ cop' = "for_nth_raw"
  /\ Enumerated(nn, -1, for_nth_raw(nn))

\* oob is drawn only when index_map[n] is read out of bounds
ForNthMapped(nn, oob) ==
  /\ (dummy \/ size = 0 \/ nn \in 0..(size - 1)) => oob = -1
  /\ cop' = "for_nth_mapped"
  /\ Enumerated(nn, -1, for_nth_mapped(nn, oob))

ForAllN ==
  /\ cop' = "for_all_n"
  /\ Enumerated(-1, -1, for_all_n)

\* the dummy's specialisation has no for_all_n2
ForAllN2 ==
  /\ ~dummy
  /\ cop' = "for_all_n2"
  /\ Enumerated(-1, -1, for_all_n2)

ForAllUnless(accept) ==
  /\ cop' = "for_all_unless"
  /\ Enumerated(-1, for_all_unless_result(accept), for_all_unless(accept))

ClassifierNext ==
  \/ \E Idx \in 0..(MaxFields - 1) : Map(Idx)
  \/ \E Idx \in 0..(MaxFields - 1) : Unmap(Idx)
  \/ FieldsForAll
  \/ \E nn \in NthArgs : FieldsForNth(nn)
  \/ ForAll
  \/ \E nn \in NthArgs : ForNthRaw(nn)
  \/ \E nn \in NthArgs, oob \in NthArgs : ForNthMapped(nn, oob)
  \/ ForAllN
  \/ ForAllN2
  \/ \E accept \in SUBSET (0..(MaxFields - 1)) : ForAllUnless(accept)

ClassifierIdle ==
  /\ type = <<>> /\ P = {} /\ index_map = <<>>
  /\ cop = "none" /\ carg = -1 /\ cret = -1
  /\ dummy = FALSE /\ invoked = <<>>

AdapterIdle ==
  /\ adapter = "none" /\ mem = <<>> /\ mem_at_entry = <<>>
  /\ in_ptr = <<>> /\ out_ptr = <<>> /\ n = 0 /\ pc = "idle" /\ i = 0 /\ c = 0
  /\ effects_it = 0 /\ input_buf = <<>> /\ effects = <<>>
  /\ fx_kind = "none" /\ fx_accepts = {} /\ trace = <<>>

NoEvent == [s |-> "", argv |-> <<>>]

RouterIdle ==
  /\ inputs_t = <<>> /\ callable = FALSE /\ can_initialize = FALSE
  /\ life = "none" /\ returned = FALSE /\ init_log = <<>>
  /\ inputs = <<>> /\ inputs_at_entry = <<>> /\ msg = NoEvent
  /\ rpc = "idle" /\ rlog = <<>>

PreRunIdle ==
  /\ proc_type = <<>> /\ ctrl = <<>> /\ inputs_set = {} /\ run_idx = 0
  /\ port = <<>> /\ ctrl_before = <<>> /\ inputs_set_before = {}

HostInit ==
  /\ n \in 0..MaxFrames
  /\ mem = [b \in Buffers |-> [j \in 1..n |-> Tag(b, j - 1)]]
  /\ mem_at_entry = mem
  /\ \E ic \in 0..MaxChannels : in_ptr = [ch \in 1..ic |-> ch - 1]
  /\ pc = "idle" /\ i = 0 /\ c = 0 /\ effects_it = 0
  /\ input_buf = <<>> /\ trace = <<>>

\* ------------------------------------------------ the processing operation
\* Positions (1-based) of the fields of an aggregate that have a .sample
AudioFields(fields) == {j \in DOMAIN fields : fields[j].kind = "audio_sample"}

\* The author's mono processing operation fx(ins, outs): "identity" copies
\* the input sample to the output sample; "delay" outputs the sample of the
\* previous invocation, which it keeps in the effect's own state.
fx_mono(kind, ref) ==
  LET x == (CHOOSE j \in AudioFields(ref.ins) : TRUE)
      in_sample == ref.ins[x].v
      y == IF kind = "identity" THEN in_sample ELSE ref.st
  IN [ref EXCEPT !.outs = [j \in DOMAIN @ |->
                             IF j \in AudioFields(ref.outs) THEN [@[j] EXCEPT !.v = y] ELSE @[j]],
                 !.st = IF kind = "identity" THEN @ ELSE in_sample]

\* for_each_field(ins, [in](Field& field) { if_possible(field.sample = in); })
CopyTheInput(ins, in) ==
  [j \in DOMAIN ins |-> IF j \in AudioFields(ins) THEN [ins[j] EXCEPT !.v = in] ELSE ins[j]]

\* FP out; for_each_field(outs, [&out](Field& field) { if_possible(out = field.sample); })
\* out starts indeterminate; the requires-clause of the adapter guarantees a
\* sample field that assigns it.
Indeterminate == "indeterminate"
RECURSIVE ReadBackFrom(_, _, _)
ReadBackFrom(outs, j, out) ==
  IF j > Len(outs) THEN out
  ELSE ReadBackFrom(outs, j + 1, IF j \in AudioFields(outs) THEN outs[j].v ELSE out)
ReadBack(outs) == ReadBackFrom(outs, 1, Indeterminate)

\* process_0(implementation, in, ref [, tick]): copy the input, execute,
\* read back the output.  Both overloads do the same; tick is passed through
\* to fx and read by nothing here.
process_0(kind, in, ref) ==
  LET r1 == [ref EXCEPT !.ins = CopyTheInput(ref.ins, in)]
      r2 == fx_mono(kind, r1)
  IN [ref |-> r2, out |-> ReadBack(r2.outs)]

\* ------------------------------------------------------------ mono adapter
\* assert(input_channels == output_channels)
\* (faulty variant: the assertion removed)
AssertChannels_ndebug(input_channels, output_channels) == TRUE
AssertChannels(input_channels, output_channels) == input_channels = output_channels

\* const int channels = input_channels
channels == Len(in_ptr)

\* c < channels && effects_it != effects_range.end()
\* (faulty variant: the iterator is compared one element early)
MonoLoopGuard_short(cc, chans, it, end) == cc < chans /\ it < end - 1
MonoLoopGuard(cc, chans, it, end) == cc < chans /\ it # end

\* The argument process_0 is called with: input_buf[c], fetched by the
\* copy-in pass (and no read of the host buffer here).
\* (faulty variant: in[c][i] read at the call, inside the write loop)
ProcessArg_direct(buf, m, cc, frame) ==
  [v |-> Load(m, in_ptr, cc, frame), ev |-> <<Ev("read", cc, frame, Load(m, in_ptr, cc, frame))>>]
\* (faulty variant: every instance is given the sample of channel 0)
ProcessArg_first(buf, m, cc, frame) == [v |-> At(buf, 0), ev |-> <<>>]
ProcessArg(buf, m, cc, frame) == [v |-> At(buf, cc), ev |-> <<>>]

MonoInit ==
  /\ adapter = "mono"
  /\ HostInit
  /\ \E oc \in 0..MaxChannels : out_ptr \in InjectiveSeqs(oc)
  /\ \E m \in 0..MaxChannels : effects = [k \in 1..m |-> NewInstance(MonoIns, MonoOuts)]
  /\ fx_kind \in {"identity", "delay"}
  /\ fx_accepts = {}

\* lines 136-141: the assertion, then the scratch buffer
MonoProcessEnter ==
  /\ adapter = "mono" /\ pc = "idle"
  /\ IF AssertChannels(Len(in_ptr), Len(out_ptr))
       THEN /\ pc' = "frame"
            /\ input_buf' = [ch \in 1..channels |-> Indeterminate]
       ELSE /\ pc' = "fatal"
            /\ UNCHANGED input_buf
  /\ i' = 0
  /\ mem_at_entry' = mem
  /\ UNCHANGED nonAdapter
  /\ UNCHANGED <<adapter, mem, in_ptr, out_ptr, n, c, effects_it, effects, fx_kind,
                 fx_accepts, trace>>

\* line 143: for (int32_t i = 0; i < n; i++)
MonoFrameHead ==
  /\ adapter = "mono" /\ pc = "frame"
  /\ IF i < n THEN pc' = "copy_in" /\ c' = 0
              ELSE pc' = "done" /\ UNCHANGED c
  /\ UNCHANGED nonAdapter
  /\ UNCHANGED <<adapter, mem, mem_at_entry, in_ptr, out_ptr, n, i, effects_it, input_buf,
                 effects, fx_kind, fx_accepts, trace>>

\* lines 154-157: input_buf[c] = in[c][i]
MonoCopyIn ==
  /\ adapter = "mono" /\ pc = "copy_in" /\ c < channels
  /\ input_buf' = [input_buf EXCEPT ![c + 1] = Load(mem, in_ptr, c, i)]
  /\ trace' = Append(trace, Ev("read", c, i, Load(mem, in_ptr, c, i)))
  /\ c' = c + 1
  /\ UNCHANGED nonAdapter
  /\ UNCHANGED <<adapter, mem, mem_at_entry, in_ptr, out_ptr, n, pc, i, effects_it, effects,
                 fx_kind, fx_accepts>>

\* lines 161-163: the copy-in loop is over; full_state() is iterated anew
MonoCopyInEnd ==
  /\ adapter = "mono" /\ pc = "copy_in" /\ ~(c < channels)
  /\ pc' = "apply" /\ c' = 0 /\ effects_it' = 0
  /\ UNCHANGED nonAdapter
  /\ UNCHANGED <<adapter, mem, mem_at_entry, in_ptr, out_ptr, n, i, input_buf, effects,
                 fx_kind, fx_accepts, trace>>

\* lines 163-175: out[c][i] = process_0(implementation, input_buf[c], *effects_it)
MonoApply ==
  /\ adapter = "mono" /\ pc = "apply"
  /\ MonoLoopGuard(c, channels, effects_it, Len(effects))
  /\ LET arg == ProcessArg(input_buf, mem, c, i)
         r == process_0(fx_kind, arg.v, At(effects, effects_it))
     IN /\ effects' = [effects EXCEPT ![effects_it + 1] = r.ref]
        /\ mem' = Store(mem, out_ptr, c, i, r.out)
        /\ trace' = trace \o arg.ev \o <<Ev("fx", effects_it, i, arg.v), Ev("write", c, i, r.out)>>
  /\ c' = c + 1 /\ effects_it' = effects_it + 1
  /\ UNCHANGED nonAdapter
  /\ UNCHANGED <<adapter, mem_at_entry, in_ptr, out_ptr, n, pc, i, input_buf, fx_kind,
                 fx_accepts>>

\* the write loop is over: next frame
MonoApplyEnd ==
  /\ adapter = "mono" /\ pc = "apply"
  /\ ~MonoLoopGuard(c, channels, effects_it, Len(effects))
  /\ pc' = "frame" /\ i' = i + 1
  /\ UNCHANGED nonAdapter
  /\ UNCHANGED <<adapter, mem, mem_at_entry, in_ptr, out_ptr, n, c, effects_it, input_buf,
                 effects, fx_kind, fx_accepts, trace>>

MonoNext ==
  \/ MonoProcessEnter
  \/ MonoFrameHead
  \/ MonoCopyIn
  \/ MonoCopyInEnd
  \/ MonoApply
  \/ MonoApplyEnd

\* ------------------------------------------------------------ poly adapter
\* process_sample(fx, ins, outs [, tick]): the if-constexpr chain calls fx with
\* the first argument list it accepts, once.  The result is the list of calls
\* made.  (The two overloads differ by the trailing tick only.)
RECURSIVE FirstAccepted(_, _)
FirstAccepted(accepts, q) ==
  IF q > Len(Signatures) THEN <<>>
  ELSE IF Signatures[q] \in accepts THEN <<Signatures[q]>>
  ELSE FirstAccepted(accepts, q + 1)

\* (faulty variant: every accepted signature is called, as without the elses)
process_sample_every(accepts) == SelectSeq(Signatures, LAMBDA sg : sg \in accepts)
process_sample(accepts) == FirstAccepted(accepts, 1)

\* k-th (0-based) audio sample field of an aggregate, 0 when there is none
RECURSIVE NthAudio(_, _, _)
NthAudio(fields, j, k) ==
  IF j > Len(fields) THEN 0
  ELSE IF j \in AudioFields(fields)
         THEN IF k = 0 THEN fields[j].v ELSE NthAudio(fields, j + 1, k - 1)
  ELSE NthAudio(fields, j + 1, k)

AudioRank(fields, j) == Cardinality({x \in AudioFields(fields) : x < j})

\* The author's poly processing operation, by the arguments it is given: it
\* counts its invocations in its own state; given inputs and outputs it
\* copies the k-th input sample to the k-th output sample; given outputs
\* alone it writes its invocation count to every output sample.
fx_poly(sig, ref) ==
  LET cnt == ref.st + 1
      outs2 == [j \in DOMAIN ref.outs |->
                 IF j \notin AudioFields(ref.outs) THEN ref.outs[j]
                 ELSE IF sig = "ins_outs"
                        THEN [ref.outs[j] EXCEPT !.v = NthAudio(ref.ins, 1, AudioRank(ref.outs, j))]
                 ELSE IF sig = "outs" THEN [ref.outs[j] EXCEPT !.v = cnt]
                 ELSE ref.outs[j]]
  IN [ref EXCEPT !.outs = outs2, !.st = cnt]

RECURSIVE ApplyCalls(_, _)
ApplyCalls(calls, ref) ==
  IF calls = <<>> THEN ref ELSE ApplyCalls(Tail(calls), fx_poly(Head(calls), ref))

\* The poly adapter states no precondition on the channel counts (lines
\* 223-232 go straight to the frame loop).
PolyEntryCheck(input_channels, output_channels) == TRUE

\* lines 241-250, the copy-in lambda on one field: an audio sample field
\* takes channel k, if there is one, and k moves on.
\* (faulty variant: k moves on for every field)
CopyInField_countall(field, k, m, frame) ==
  IF field.kind = "audio_sample" /\ k < Len(in_ptr)
    THEN [field |-> [field EXCEPT !.v = Load(m, in_ptr, k, frame)], k |-> k + 1,
          ev |-> <<Ev("read", k, frame, Load(m, in_ptr, k, frame))>>]
    ELSE [field |-> field, k |-> k + 1, ev |-> <<>>]
CopyInField(field, k, m, frame) ==
  IF field.kind = "audio_sample" /\ k < Len(in_ptr)
    THEN [field |-> [field EXCEPT !.v = Load(m, in_ptr, k, frame)], k |-> k + 1,
          ev |-> <<Ev("read", k, frame, Load(m, in_ptr, k, frame))>>]
    ELSE [field |-> field, k |-> k, ev |-> <<>>]

\* lines 236-252: int k = 0; for_each_field_ref(ins, lambda)
RECURSIVE CopyInputsFrom(_, _, _, _, _, _)
CopyInputsFrom(ins, j, k, m, frame, ev) ==
  IF j > Len(ins) THEN [ins |-> ins, ev |-> ev]
  ELSE LET r == CopyInField(ins[j], k, m, frame)
       IN CopyInputsFrom([ins EXCEPT ![j] = r.field], j + 1, r.k, m, frame, ev \o r.ev)
CopyInputs(ins, m, frame) == CopyInputsFrom(ins, 1, 0, m, frame, <<>>)

\* lines 270-279, the copy-out lambda on one field: an audio sample field
\* goes to channel k, if there is one, and k moves on.
CopyOutField(field, k, m, frame) ==
  IF field.kind = "audio_sample" /\ k < Len(out_ptr)
    THEN [m |-> Store(m, out_ptr, k, frame, field.v), k |-> k + 1,
          ev |-> <<Ev("write", k, frame, field.v)>>]
    ELSE [m |-> m, k |-> k, ev |-> <<>>]

\* lines 265-281: int k = 0; for_each_field(outs, lambda)
RECURSIVE CopyOutputsFrom(_, _, _, _, _, _)
CopyOutputsFrom(outs, j, k, m, frame, ev) ==
  IF j > Len(outs) THEN [m |-> m, ev |-> ev]
  ELSE LET r == CopyOutField(outs[j], k, m, frame)
       IN CopyOutputsFrom(outs, j + 1, r.k, r.m, frame, ev \o r.ev)
CopyOutputs(outs, m, frame) == CopyOutputsFrom(outs, 1, 0, m, frame, <<>>)

PolyInit ==
  /\ adapter = "poly"
  /\ HostInit
  /\ \E oc \in 0..MaxChannels :
       \/ out_ptr = [ch \in 1..oc |-> ch - 1]                \* in place
       \/ out_ptr = [ch \in 1..oc |-> MaxChannels + ch - 1]  \* storage of its own
  /\ \E ishape \in Shapes, oshape \in Shapes : effects = <<NewInstance(ishape, oshape)>>
  /\ fx_kind = "none"
  /\ fx_accepts \in Callables

\* lines 229-233: fx, ins, outs are taken from the implementation
PolyProcessEnter ==
  /\ adapter = "poly" /\ pc = "idle"
  /\ IF PolyEntryCheck(Len(in_ptr), Len(out_ptr)) THEN pc' = "frame" ELSE pc' = "fatal"
  /\ i' = 0
  /\ mem_at_entry' = mem
  /\ UNCHANGED nonAdapter
  /\ UNCHANGED <<adapter, mem, in_ptr, out_ptr, n, c, effects_it, input_buf, effects,
                 fx_kind, fx_accepts, trace>>

\* line 233: for (int32_t i = 0; i < n; i++)
PolyFrameHead ==
  /\ adapter = "poly" /\ pc = "frame"
  /\ pc' = IF i < n THEN "copy_in" ELSE "done"
  /\ UNCHANGED nonAdapter
  /\ UNCHANGED <<adapter, mem, mem_at_entry, in_ptr, out_ptr, n, i, c, effects_it,
                 input_buf, effects, fx_kind, fx_accepts, trace>>

\* lines 235-252: copy inputs in the effect
PolyCopyIn ==
  /\ adapter = "poly" /\ pc = "copy_in"
  /\ LET r == CopyInputs(effects[1].ins, mem, i)
     IN /\ effects' = [effects EXCEPT ![1].ins = r.ins]
        /\ trace' = trace \o r.ev
  /\ pc' = "process"
  /\ UNCHANGED nonAdapter
  /\ UNCHANGED <<adapter, mem, mem_at_entry, in_ptr, out_ptr, n, i, c, effects_it,
                 input_buf, fx_kind, fx_accepts>>

\* lines 254-262: process
PolyProcess ==
  /\ adapter = "poly" /\ pc = "process"
  /\ LET calls == process_sample(fx_accepts)
     IN /\ effects' = [effects EXCEPT ![1] = ApplyCalls(calls, @)]
        /\ trace' = trace \o [q \in 1..Len(calls) |-> Ev("fx", 0, i, calls[q])]
  /\ pc' = "copy_out"
  /\ UNCHANGED nonAdapter
  /\ UNCHANGED <<adapter, mem, mem_at_entry, in_ptr, out_ptr, n, i, c, effects_it,
                 input_buf, fx_kind, fx_accepts>>

\* lines 264-282: copy the outputs, then the next frame
PolyCopyOut ==
  /\ adapter = "poly" /\ pc = "copy_out"
  /\ LET r == CopyOutputs(effects[1].outs, mem, i)
     IN /\ mem' = r.m
        /\ trace' = trace \o r.ev
  /\ pc' = "frame" /\ i' = i + 1
  /\ UNCHANGED nonAdapter
  /\ UNCHANGED <<adapter, mem_at_entry, in_ptr, out_ptr, n, c, effects_it, input_buf,
                 effects, fx_kind, fx_accepts>>

PolyNext ==
  \/ PolyProcessEnter
  \/ PolyFrameHead
  \/ PolyCopyIn
  \/ PolyProcess
  \/ PolyCopyOut

\* ---------------------------------------------------- pd message router
\* Longest argument list of an event.
MaxArgs == 2

\* Value types a field of the inputs record can hold: a float, an int, a
\* bool, a std::string, or anything that is assignable from neither a float
\* nor a string literal (an enum, an aggregate, a field without .value).
ValueTypes == {"float", "int", "bool", "string", "other"}

\* The inputs records of the model: no inputs at all, one field of any value
\* type, or such a field followed by a second one.
InputRecords ==
  {<<>>} \cup {<<t>> : t \in ValueTypes}
         \cup {<<t, u>> : t \in ValueTypes, u \in {"float", "string"}}

\* A value: floats are held in tenths (-15 is -1.5), ints in units, a bool as
\* 0 / 1, a string as the sequence of its character codes.
Val(t, num, str) == [t |-> t, num |-> num, str |-> str]

\* the value a field holds before any event reaches it
DefaultValue(t) == Val(t, 0, <<>>)

\* the symbol "foo"
foo == <<102, 111, 111>>

\* t_atom: a_type and the member of the union a_w that it selects
Atom(a_type, w_float, w_symbol) ==
  [a_type |-> a_type, w_float |-> w_float, w_symbol |-> w_symbol]

Floats == {-15}
Atoms ==
  {Atom("A_FLOAT", f, <<>>) : f \in Floats}
    \cup {Atom("A_SYMBOL", 0, foo), Atom("A_POINTER", 0, <<>>)}

ArgLists == SeqsUpTo(Atoms, MaxArgs)

\* selectors the host sends, and the one of s_bang
Names == {"bang", "float", "set"}
s_bang == "bang"

has_inputs == Len(inputs_t) > 0
argc == Len(msg.argv)

\* float -> integer conversion of C++: truncation toward zero
Truncate(f) == IF f >= 0 THEN f \div 10 ELSE -((-f) \div 10)

\* requires { first_inlet.value = 0.f; }: float, int and bool take a float by
\* the arithmetic conversions, std::string by basic_string::operator=(char).
AssignableFromFloat(t) == t \in {"float", "int", "bool", "string"}

\* requires { first_inlet.value = "string"; }: std::string takes a const
\* char*, and so does bool by the pointer -> bool conversion.
AssignableFromString(t) == t \in {"string", "bool"}

\* first_inlet.value = argv[0].a_w.w_float
AssignFloat(field, w_float) ==
  CASE field.t = "float" -> Val("float", w_float, <<>>)
    [] field.t = "int" -> Val("int", Truncate(w_float), <<>>)
    [] field.t = "bool" -> Val("bool", IF w_float = 0 THEN 0 ELSE 1, <<>>)
    [] field.t = "string" -> Val("string", 0, <<Truncate(w_float)>>)
    [] OTHER -> field

\* first_inlet.value = argv[0].a_w.w_symbol->s_name
AssignString(field, s_name) ==
  CASE field.t = "string" -> Val("string", 0, s_name)
    [] field.t = "bool" -> Val("bool", 1, <<>>)
    [] OTHER -> field

\* mutation: every argument is routed to the field at its own position
process_first_inlet_control_each(ins, argv) ==
  [k \in 1..Len(ins) |->
     IF k <= Len(argv) /\ argv[k].a_type = "A_FLOAT" /\ AssignableFromFloat(ins[k].t)
     THEN AssignFloat(ins[k], argv[k].w_float)
     ELSE ins[k]]

\* process_first_inlet_control: implementation.inputs after the call
process_first_inlet_control(ins, argv) ==
  IF Len(ins) > 0
  THEN LET arg == At(argv, 0)
           first_inlet == At(ins, 0)
       IN CASE arg.a_type = "A_FLOAT" ->
                 IF AssignableFromFloat(first_inlet.t)
                 THEN [ins EXCEPT ![1] = AssignFloat(first_inlet, arg.w_float)]
                 ELSE ins
            [] arg.a_type = "A_SYMBOL" ->
                 IF AssignableFromString(first_inlet.t)
                 THEN [ins EXCEPT ![1] = AssignString(first_inlet, arg.w_symbol)]
                 ELSE ins
            [] OTHER -> ins
  ELSE ins

\* mutation: the result of process_messages is not looked at
after_messages_fallthrough(ok) == "switch"

\* if (process_messages(...)) return;
after_messages(ok) == IF ok THEN "idle" ELSE "switch"

\* mutation: every event without argument is a bang
is_bang_any(s) == TRUE

\* strcmp(s->s_name, s_bang.s_name) == 0
is_bang(s) == s = s_bang

\* mutation: process returns once the processing operation has run
after_call_return == "idle"

\* the statement after if_possible(implementation()): output_setup.commit
after_call == "commit"

\* if_possible(implementation()): the call is made when it is well-formed
if_possible(log) == IF callable THEN Append(log, "process") ELSE log

\* mutation: obj_new returns the object without initialising it
after_construct_noinit == "init_done"

\* the statement after the placement new of obj_new: obj->init(argc, argv)
after_construct == "init_setup"

RouterInit ==
  /\ inputs_t \in InputRecords
  /\ callable \in BOOLEAN
  /\ can_initialize \in BOOLEAN
  /\ life = "none" /\ returned = FALSE /\ init_log = <<>>
  /\ inputs = <<>> /\ inputs_at_entry = <<>> /\ msg = NoEvent
  /\ rpc = "idle" /\ rlog = <<>>

\* obj_new: pd_new and the placement new of the instance
ObjNew ==
  /\ life = "none"
  /\ life' = after_construct
  /\ inputs' = [k \in 1..Len(inputs_t) |-> DefaultValue(inputs_t[k])]
  /\ UNCHANGED <<inputs_t, callable, can_initialize, returned, init_log,
                 inputs_at_entry, msg, rpc, rlog>>
  /\ UNCHANGED nonRouter

\* init: the initialisation arguments
InitSetup ==
  /\ life = "init_setup"
  /\ init_log' = IF can_initialize THEN Append(init_log, "init_setup") ELSE init_log
  /\ life' = "input_setup"
  /\ UNCHANGED <<inputs_t, callable, can_initialize, returned, inputs,
                 inputs_at_entry, msg, rpc, rlog>>
  /\ UNCHANGED nonRouter

\* init: the inlets
InputSetup ==
  /\ life = "input_setup"
  /\ init_log' = Append(init_log, "input_setup")
  /\ life' = "output_setup"
  /\ UNCHANGED <<inputs_t, callable, can_initialize, returned, inputs,
                 inputs_at_entry, msg, rpc, rlog>>
  /\ UNCHANGED nonRouter

\* init: the outlets
OutputSetup ==
  /\ life = "output_setup"
  /\ init_log' = Append(init_log, "output_setup")
  /\ life' = "init_controls"
  /\ UNCHANGED <<inputs_t, callable, can_initialize, returned, inputs,
                 inputs_at_entry, msg, rpc, rlog>>
  /\ UNCHANGED nonRouter

\* init: avnd::init_controls, which leaves every control at its initial value
InitControls ==
  /\ life = "init_controls"
  /\ init_log' = IF has_inputs THEN Append(init_log, "init_controls") ELSE init_log
  /\ life' = "init_done"
  /\ UNCHANGED <<inputs_t, callable, can_initialize, returned, inputs,
                 inputs_at_entry, msg, rpc, rlog>>
  /\ UNCHANGED nonRouter

\* obj_new: return obj
ObjNewReturn ==
  /\ life = "init_done"
  /\ returned' = TRUE
  /\ life' = "live"
  /\ UNCHANGED <<inputs_t, callable, can_initialize, init_log, inputs,
                 inputs_at_entry, msg, rpc, rlog>>
  /\ UNCHANGED nonRouter

\* obj_free, between two events
ObjFree ==
  /\ life = "live" /\ rpc = "idle"
  /\ life' = "freed"
  /\ UNCHANGED <<inputs_t, callable, can_initialize, returned, init_log,
                 inputs, inputs_at_entry, msg, rpc, rlog>>
  /\ UNCHANGED nonRouter

\* obj_process: the host sends an event to an object it holds
ObjProcess(s, argv) ==
  /\ returned /\ life = "live" /\ rpc = "idle"
  /\ msg' = [s |-> s, argv |-> argv]
  /\ inputs_at_entry' = inputs
  /\ rlog' = <<>>
  /\ rpc' = "process_messages"
  /\ UNCHANGED <<inputs_t, callable, can_initialize, life, returned,
                 init_log, inputs>>
  /\ UNCHANGED nonRouter

\* process: messages_setup.process_messages returns ok, true when an explicit
\* handler of T has accepted the event
ProcessMessages(ok) ==
  /\ rpc = "process_messages"
  /\ rlog' = IF ok THEN Append(rlog, "handler") ELSE rlog
  /\ rpc' = after_messages(ok)
  /\ UNCHANGED <<inputs_t, callable, can_initialize, life, returned,
                 init_log, inputs, inputs_at_entry, msg>>
  /\ UNCHANGED nonRouter

\* process, case 0: a bang goes on to the processing operation, anything
\* else to process_generic_message
ProcessNoArgs ==
  /\ rpc = "switch" /\ argc = 0
  /\ rlog' = IF is_bang(msg.s) THEN rlog ELSE Append(rlog, "generic")
  /\ rpc' = IF is_bang(msg.s) THEN "call" ELSE "idle"
  /\ UNCHANGED <<inputs_t, callable, can_initialize, life, returned,
                 init_log, inputs, inputs_at_entry, msg>>
  /\ UNCHANGED nonRouter

\* process, default: process_first_inlet_control
ProcessFirstInletControl ==
  /\ rpc = "switch" /\ argc > 0
  /\ inputs' = process_first_inlet_control(inputs, msg.argv)
  /\ rlog' = Append(rlog, "first_inlet")
  /\ rpc' = "call"
  /\ UNCHANGED <<inputs_t, callable, can_initialize, life, returned,
                 init_log, inputs_at_entry, msg>>
  /\ UNCHANGED nonRouter

\* process: if_possible(implementation())
ProcessCall ==
  /\ rpc = "call"
  /\ rlog' = if_possible(rlog)
  /\ rpc' = after_call
  /\ UNCHANGED <<inputs_t, callable, can_initialize, life, returned,
                 init_log, inputs, inputs_at_entry, msg>>
  /\ UNCHANGED nonRouter

\* process: output_setup.commit(implementation)
ProcessCommit ==
  /\ rpc = "commit"
  /\ rlog' = Append(rlog, "commit")
  /\ rpc' = "idle"
  /\ UNCHANGED <<inputs_t, callable, can_initialize, life, returned,
                 init_log, inputs, inputs_at_entry, msg>>
  /\ UNCHANGED nonRouter

RouterNext ==
  \/ ObjNew
  \/ InitSetup
  \/ InputSetup
  \/ OutputSetup
  \/ InitControls
  \/ ObjNewReturn
  \/ ObjFree
  \/ \E s \in Names, argv \in ArgLists : ObjProcess(s, argv)
  \/ \E ok \in BOOLEAN : ProcessMessages(ok)
  \/ ProcessNoArgs
  \/ ProcessFirstInletControl
  \/ ProcessCall
  \/ ProcessCommit

\* ------------------------------------------------------ ossia pre-run
\* Longest queue of an inlet.
MaxQueue == 2

\* The fields of the inputs record: a control holding an int, a control that
\* is enum-ish, a parameter that is not a control and holds a float, and an
\* audio port.
PortTypes == {"int_control", "enum_control", "float_port", "audio_port"}
ProcessorTypes == SeqsUpTo(PortTypes, MaxFields)

\* avnd::parameter, avnd::control, avnd::enum_ish_parameter
parameter(Field) == Field # "audio_port"
control(Field) == Field \in {"int_control", "enum_control"}
enum_ish_parameter(Field) == Field = "enum_control"

\* the type of ctrl.value
ValueTypeOf(Field) ==
  CASE Field = "int_control" -> "int"
    [] Field = "enum_control" -> "enum"
    [] Field = "float_port" -> "float"
    [] OTHER -> "other"

\* ossia::value: a float (in tenths) or an int
HostValues == {Val("float", -15, <<>>), Val("int", 2, <<>>)}
Queues == SeqsUpTo(HostValues, MaxQueue)

\* ossia::convert<int>(src), ossia::convert<float>(src)
convert_int(src) == IF src.t = "float" THEN Truncate(src.num) ELSE src.num
convert_float(src) == IF src.t = "int" THEN src.num * 10 ELSE src.num

\* from_ossia_value(src, dst): the overload the type of dst selects
from_ossia_value_2(src, dst) ==
  CASE dst.t = "int" -> Val("int", convert_int(src), <<>>)
    [] dst.t = "float" -> Val("float", convert_float(src), <<>>)
    [] OTHER -> dst

\* mutation: an enum-ish field is given the converted value as an int is
from_ossia_value_converted(Field, src, dst) ==
  IF dst.t = "float" THEN Val("float", convert_float(src), <<>>)
  ELSE Val(dst.t, convert_int(src), <<>>)

\* from_ossia_value(field, src, dst): the constrained overload, with its empty
\* body, is the more specialised one for an enum-ish field
from_ossia_value(Field, src, dst) ==
  IF enum_ish_parameter(Field) THEN dst ELSE from_ossia_value_2(src, dst)

\* mutation: the first queued value is taken
back_front(data) == data[1]

\* port.data.get_data().back().value
back(data) == data[Len(data)]

\* controls::indices_n: the positions of the controls in the inputs record
control_indices_n(T) == indices_n(T, {"int_control", "enum_control"})

PreRunInit ==
  /\ proc_type \in ProcessorTypes
  /\ ctrl = [k \in 1..Len(proc_type) |-> DefaultValue(ValueTypeOf(proc_type[k]))]
  /\ inputs_set = {}
  /\ run_idx = 0
  /\ port = <<>>
  /\ ctrl_before = ctrl
  /\ inputs_set_before = {}

\* what every call of the pass does besides its own effect
PreRunStep(data) ==
  /\ port' = data
  /\ ctrl_before' = ctrl
  /\ inputs_set_before' = inputs_set
  /\ run_idx' = run_idx + 1
  /\ UNCHANGED proc_type
  /\ UNCHANGED nonPreRun

\* operator()(Field&, ossia::audio_inlet&, num<Idx>): nothing
PreRunAudio ==
  /\ run_idx < Len(proc_type)
  /\ ~parameter(At(proc_type, run_idx))
  /\ UNCHANGED <<ctrl, inputs_set>>
  /\ PreRunStep(<<>>)

\* init_value of a parameter that is not a control
InitValueParameter(data) ==
  /\ run_idx < Len(proc_type)
  /\ parameter(At(proc_type, run_idx)) /\ ~control(At(proc_type, run_idx))
  /\ ctrl' = IF data # <<>>
             THEN [ctrl EXCEPT ![run_idx + 1] =
                     from_ossia_value(At(proc_type, run_idx), back(data), @)]
             ELSE ctrl
  /\ UNCHANGED inputs_set
  /\ PreRunStep(data)

\* init_value of a control
InitValueControl(data) ==
  /\ run_idx < Len(proc_type)
  /\ control(At(proc_type, run_idx))
  /\ ctrl' = IF data # <<>>
             THEN [ctrl EXCEPT ![run_idx + 1] =
                     from_ossia_value(At(proc_type, run_idx), back(data), @)]
             ELSE ctrl
  /\ inputs_set' = IF data # <<>>
                   THEN inputs_set \cup
                          {index_of_element(run_idx, control_indices_n(proc_type))}
                   ELSE inputs_set
  /\ PreRunStep(data)

PreRunNext ==
  \/ PreRunAudio
  \/ \E data \in Queues : InitValueParameter(data)
  \/ \E data \in Queues : InitValueControl(data)

\* ---------------------------------------------------------- specifications
InitClassifier == ClassifierInit /\ AdapterIdle /\ RouterIdle /\ PreRunIdle
SpecClassifier == InitClassifier /\ [][ClassifierNext]_vars

InitMono == MonoInit /\ ClassifierIdle /\ RouterIdle /\ PreRunIdle
SpecMono == InitMono /\ [][MonoNext]_vars

InitPoly == PolyInit /\ ClassifierIdle /\ RouterIdle /\ PreRunIdle
SpecPoly == InitPoly /\ [][PolyNext]_vars

\* Both per-sample adapters: the record's shape selected one of them.
InitAdapter == (MonoInit \/ PolyInit) /\ ClassifierIdle /\ RouterIdle /\ PreRunIdle
AdapterNext ==
  \/ MonoProcessEnter
  \/ MonoFrameHead
  \/ MonoCopyIn
  \/ MonoCopyInEnd
  \/ MonoApply
  \/ MonoApplyEnd
  \/ PolyProcessEnter
  \/ PolyFrameHead
  \/ PolyCopyIn
  \/ PolyProcess
  \/ PolyCopyOut
SpecAdapter == InitAdapter /\ [][AdapterNext]_vars

InitRouter == RouterInit /\ ClassifierIdle /\ AdapterIdle /\ PreRunIdle
SpecRouter == InitRouter /\ [][RouterNext]_vars

InitPreRun ==
  PreRunInit /\ ClassifierIdle /\ AdapterIdle /\ RouterIdle
SpecPreRun == InitPreRun /\ [][PreRunNext]_vars


\* =====================================================================
\* Properties
\* =====================================================================

\* Full-record positions whose field satisfies P, stated on the record itself.
MatchingPositions == {p \in 0..(Len(type) - 1) : At(type, p) \in P}

\* C1: for every record and predicate, unmap(map(i)) = i for every i in
\* [0, size), and map is injective: two subset positions never resolve to the
\* same full-record position.
Thm_C1_UnmapMap ==
  /\ \A a \in 0..(size - 1) : unmap(map(a)) = a
  /\ \A a, b \in 0..(size - 1) : map(a) = map(b) => a = b
  /\ cop = "unmap" => cret \in 0..(size - 1) /\ map(cret) = carg

\* unmap was evaluated on the position of the second matching field, which is
\* not the second field of the record.
Wit_C1_UnmapMap ==
  /\ cop = "unmap" /\ size >= 2
  /\ carg = map(1) /\ cret = 1 /\ map(1) > 1

\* C2: the entries of index_map are strictly increasing.
Thm_C2_StrictlyIncreasing ==
  \A a, b \in 0..(size - 1) : a < b => At(index_map, a) < At(index_map, b)

\* a map with two entries that skips a non-matching field between them
Wit_C2_StrictlyIncreasing ==
  /\ size >= 2 /\ cop = "map" /\ carg = 1
  /\ At(index_map, 1) > At(index_map, 0) + 1

\* C3: classification is sound and complete: the values of index_map are
\* exactly the positions whose field satisfies P, and size is their number.
Thm_C3_SoundComplete ==
  /\ {At(index_map, a) : a \in 0..(size - 1)} = MatchingPositions
  /\ size = Cardinality(MatchingPositions)

\* a record with matching and non-matching fields, after a lookup
Wit_C3_SoundComplete ==
  /\ cop = "map" /\ size >= 1 /\ size < Len(type) /\ Len(type) = MaxFields
  /\ At(type, 0) \notin P

\* --------------------------------------------------------- trace helpers
Events(op) == {q \in DOMAIN trace : trace[q].op = op}
EventsAt(op, ch, frame) ==
  {q \in DOMAIN trace : trace[q].op = op /\ trace[q].ch = ch /\ trace[q].frame = frame}
EventsOfFrame(op, frame) == {q \in DOMAIN trace : trace[q].op = op /\ trace[q].frame = frame}

Min(a, b) == IF a < b THEN a ELSE b

\* C4: in both per-sample adapters, every read of an input sample of frame i
\* happens before the first write of an output sample of frame i.
Thm_C4_ReadsBeforeWrites ==
  \A q \in Events("read") :
    \A p \in 1..(q - 1) : ~(trace[p].op = "write" /\ trace[p].frame = trace[q].frame)

\* a finished mono call on two channels whose first output channel is the
\* storage of the second input channel
Wit_C4_ReadsBeforeWrites ==
  /\ adapter = "mono" /\ pc = "done" /\ n >= 2
  /\ channels = 2 /\ Len(effects) = 2
  /\ At(out_ptr, 0) = At(in_ptr, 1)
  /\ Cardinality(EventsOfFrame("read", 1)) = 2
  /\ Cardinality(EventsOfFrame("write", 1)) = 2

\* C5: mono adapter, identity operation, at least as many instances as
\* channels: when process has returned, out[c][i] holds what in[c][i] held
\* when it was entered, for every channel and frame, whichever input buffers
\* the output channels share storage with.
Thm_C5_MonoIdentityRoundTrip ==
  (adapter = "mono" /\ pc = "done" /\ fx_kind = "identity" /\ Len(effects) >= channels)
    => \A ch \in 0..(channels - 1), f \in 0..(n - 1) :
         Load(mem, out_ptr, ch, f) = Load(mem_at_entry, in_ptr, ch, f)

\* two channels, two frames, the output channels being the input channels
\* swapped
Wit_C5_MonoIdentityRoundTrip ==
  /\ adapter = "mono" /\ pc = "done" /\ fx_kind = "identity"
  /\ channels = 2 /\ n = 2 /\ Len(effects) = 2
  /\ At(out_ptr, 0) = At(in_ptr, 1) /\ At(out_ptr, 1) = At(in_ptr, 0)
  /\ Load(mem, out_ptr, 0, 1) = Load(mem_at_entry, in_ptr, 0, 1)
  /\ Load(mem, out_ptr, 0, 1) # Load(mem_at_entry, out_ptr, 0, 1)

\* C6: mono adapter: a call whose input and output channel counts differ ends
\* in the fatal state, with no input sample read, no processing operation
\* invoked and no output sample written.
Thm_C6_MonoMismatchFatal ==
  (adapter = "mono" /\ pc # "idle" /\ Len(in_ptr) # Len(out_ptr))
    => /\ pc = "fatal"
       /\ trace = <<>>
       /\ mem = mem_at_entry
       /\ \A k \in DOMAIN effects : effects[k] = NewInstance(MonoIns, MonoOuts)

Wit_C6_MonoMismatchFatal ==
  /\ adapter = "mono" /\ pc = "fatal"
  /\ Len(in_ptr) = 2 /\ Len(out_ptr) = 1 /\ n > 0 /\ Len(effects) = 2

\* C7 as claimed: poly adapter: a call whose input and output channel counts
\* differ ends in the fatal state, with no processing operation invoked and
\* no output sample written.
CE_C7_PolyMismatchFatal ==
  (adapter = "poly" /\ pc # "idle" /\ Len(in_ptr) # Len(out_ptr))
    => /\ pc = "fatal"
       /\ Events("fx") = {}
       /\ Events("write") = {}

\* C8: mono adapter with m instances and c channels, m < c: in every frame
\* exactly the channels 0..m-1 are processed, instance k on channel k; no
\* output sample of a channel k >= m is written; no error is raised.
Thm_C8_MonoFewerInstances ==
  (adapter = "mono" /\ Len(in_ptr) = Len(out_ptr) /\ Len(effects) < channels)
    => /\ pc # "fatal"
       /\ \A q \in DOMAIN trace :
            trace[q].op \in {"fx", "write"} => trace[q].ch < Len(effects)
       /\ \A k \in Len(effects)..(channels - 1) :
            mem[At(out_ptr, k)] = mem_at_entry[At(out_ptr, k)]
       /\ \A f \in 0..(i - 1), k \in 0..(Len(effects) - 1) :
            /\ Cardinality(EventsAt("fx", k, f)) = 1
            /\ Cardinality(EventsAt("write", k, f)) = 1
            /\ \A q \in EventsAt("fx", k, f) :
                 /\ trace[q].val = Load(mem_at_entry, in_ptr, k, f)
                 /\ trace[q + 1].op = "write" /\ trace[q + 1].ch = k

\* two channels, one instance: channel 0 was processed in both frames and
\* channel 1 was left as the host gave it
Wit_C8_MonoFewerInstances ==
  /\ adapter = "mono" /\ pc = "done" /\ n = 2
  /\ channels = 2 /\ Len(effects) = 1
  /\ Cardinality(Events("write")) = 2
  /\ Cardinality(Events("read")) = 4
  /\ mem[At(out_ptr, 1)] = mem_at_entry[At(out_ptr, 1)]
  /\ mem[At(out_ptr, 0)] # mem_at_entry[At(out_ptr, 0)]

\* C9: poly adapter, every frame: input channel k is copied into the k-th
\* audio sample input field in declaration order (other fields are skipped
\* and not counted), for k < min(input channels, audio input fields); the
\* k-th audio sample output field is copied to output channel k, for
\* k < min(output channels, audio output fields); channels beyond the field
\* count are neither read nor written.
Thm_C9_PolyChannelMapping ==
  adapter = "poly" =>
    LET ins == effects[1].ins
        outs == effects[1].outs
        nin == Min(Len(in_ptr), Cardinality(AudioFields(ins)))
        nout == Min(Len(out_ptr), Cardinality(AudioFields(outs)))
    IN /\ \A q \in Events("read") : trace[q].ch < nin
       /\ \A q \in Events("write") : trace[q].ch < nout
       /\ \A j \in DOMAIN ins : ins[j].kind # "audio_sample" => ins[j].v = 0
       /\ pc = "process" =>
            /\ \A k \in 0..(nin - 1) : Cardinality(EventsAt("read", k, i)) = 1
            /\ \A j \in AudioFields(ins) :
                 AudioRank(ins, j) < nin
                   => ins[j].v = Load(mem_at_entry, in_ptr, AudioRank(ins, j), i)
       /\ (pc \in {"frame", "done"} /\ i > 0) =>
            /\ \A k \in 0..(nout - 1) : Cardinality(EventsAt("write", k, i - 1)) = 1
            /\ \A j \in AudioFields(outs) :
                 AudioRank(outs, j) < nout
                   => Load(mem, out_ptr, AudioRank(outs, j), i - 1) = outs[j].v

\* a control before the only audio input, two input channels; two audio
\* outputs, one output channel
Wit_C9_PolyChannelMapping ==
  /\ adapter = "poly" /\ pc = "done" /\ n = 2
  /\ Len(effects[1].ins) = 2
  /\ effects[1].ins[1].kind = "parameter" /\ effects[1].ins[2].kind = "audio_sample"
  /\ Len(in_ptr) = 2
  /\ effects[1].ins[2].v = Load(mem_at_entry, in_ptr, 0, 1)
  /\ Cardinality(AudioFields(effects[1].outs)) = 2 /\ Len(out_ptr) = 1
  /\ "ins_outs" \in fx_accepts
  /\ Load(mem, out_ptr, 0, 1) = Load(mem_at_entry, in_ptr, 0, 1)

\* Frames whose processing step has been taken.
FramesProcessed == IF pc = "copy_out" THEN i + 1 ELSE i

\* C10: poly adapter: the processing operation is invoked once per frame on
\* the single instance, n times by the time process returns, after the
\* frame's copy-in and before its copy-out, whatever the channel counts.
Thm_C10_PolyOncePerFrame ==
  adapter = "poly" =>
    /\ Cardinality(Events("fx")) = FramesProcessed
    /\ effects[1].st = FramesProcessed
    /\ pc = "done" => Cardinality(Events("fx")) = n
    /\ \A f \in 0..(FramesProcessed - 1) : Cardinality(EventsOfFrame("fx", f)) = 1
    /\ \A q \in Events("fx") :
         /\ trace[q].ch = 0
         /\ \A p \in EventsOfFrame("read", trace[q].frame) : p < q
         /\ \A p \in EventsOfFrame("write", trace[q].frame) : q < p

\* a call with two frames and no channel at all
Wit_C10_PolyOncePerFrame ==
  /\ adapter = "poly" /\ pc = "done" /\ n = 2
  /\ Len(in_ptr) = 0 /\ Len(out_ptr) = 0
  /\ Cardinality(Events("fx")) = 2 /\ effects[1].st = 2

\* ------------------------------------------------------ enumerator helpers
\* the enumerators of predicate_introspection
PredicateEnumerators ==
  {"for_all", "for_all_n", "for_all_n2", "for_nth_raw", "for_nth_mapped", "for_all_unless"}
\* the positions the callback was given, as a set
Visited == {invoked[j].field : j \in 1..Len(invoked)}

\* C16: the empty-record sentinel has size 0 and each of its enumerators
\* invokes the callback zero times, whatever n; so does each predicate
\* enumerator of a populated record none of whose fields matches.
Thm_C16_EmptyEnumerates ==
  /\ dummy => size = 0
  /\ (dummy /\ cop # "none") => invoked = <<>>
  /\ (~dummy /\ MatchingPositions = {} /\ cop \in PredicateEnumerators) =>
       (size = 0 /\ invoked = <<>>)

Wit_C16_EmptyEnumerates ==
  /\ ~dummy /\ Len(type) > 1 /\ MatchingPositions = {}
  /\ cop = "for_nth_mapped" /\ carg = 1

\* C17: for_nth_raw(n, fn) invokes fn once, on the field at full position n,
\* when that field matches the predicate, and not at all otherwise, n outside
\* the record included.
Thm_C17_NthRaw ==
  cop = "for_nth_raw" =>
    invoked = IF carg \in MatchingPositions THEN <<Call(carg, -1, -1)>> ELSE <<>>

Wit_C17_NthRaw ==
  /\ cop = "for_nth_raw" /\ Len(invoked) = 1
  /\ carg \in MatchingPositions
  /\ (carg >= size \/ At(index_map, carg) # carg)

\* C18: for n in [0, size), for_nth_mapped(n, fn) invokes fn once, on the
\* field at full position index_map[n]: what for_nth_raw(map(n), fn) does.
Thm_C18_NthMapped ==
  (cop = "for_nth_mapped" /\ carg \in 0..(size - 1)) =>
    /\ invoked = <<Call(At(index_map, carg), -1, -1)>>
    /\ invoked = for_nth_raw(map(carg))

Wit_C18_NthMapped ==
  /\ cop = "for_nth_mapped" /\ carg \in 0..(size - 1)
  /\ At(index_map, carg) # carg
  /\ carg \in MatchingPositions

\* C19: for_all_n invokes the callback on the matching fields and no other,
\* once each, in declaration order, the i-th invocation with the field at
\* index_map[i] and the subset-local index i; for_all_n2 also passes the
\* full-record index, which is map(i).
Thm_C19_ForAllN ==
  cop \in {"for_all_n", "for_all_n2"} =>
    /\ Len(invoked) = Cardinality(MatchingPositions)
    /\ Visited = MatchingPositions
    /\ \A j \in 1..Len(invoked) :
         /\ invoked[j].local = j - 1
         /\ invoked[j].field = At(index_map, j - 1)
         /\ invoked[j].full = IF cop = "for_all_n2" THEN map(j - 1) ELSE -1
    /\ \A j \in 1..Len(invoked), q \in 1..Len(invoked) :
         j < q => invoked[j].field < invoked[q].field

Wit_C19_ForAllN ==
  /\ cop = "for_all_n" /\ Len(invoked) > 1
  /\ invoked[1].field # 0
  /\ Len(invoked) < Len(type)

\* --------------------------------------------------------- router helpers
IsPrefix(a, b) == Len(a) <= Len(b) /\ a = SubSeq(b, 1, Len(a))
Steps(log) == {log[k] : k \in 1..Len(log)}
\* process has returned for msg
Completed == msg # NoEvent /\ rpc = "idle"
\* msg went past the explicit handlers without being accepted
Unmatched == msg # NoEvent /\ rpc # "process_messages" /\ "handler" \notin Steps(rlog)

\* C11: once an explicit handler has accepted the event, process has returned
\* and did nothing else: no first-inlet routing, no processing operation, no
\* generic fallback, no commit, and no input field changed.
Thm_C11_MatchedOnlyHandler ==
  "handler" \in Steps(rlog) =>
    /\ rlog = <<"handler">>
    /\ rpc = "idle"
    /\ inputs = inputs_at_entry

Wit_C11_MatchedOnlyHandler ==
  /\ Completed /\ rlog = <<"handler">>
  /\ msg.s = "bang" /\ argc > 0 /\ callable

\* C12: an unmatched event without arguments invokes the processing operation
\* (when T defines one) and commits the outputs exactly when its name is the
\* bang token; any other name runs the generic fallback and nothing else.
Thm_C12_BangOrGeneric ==
  (Completed /\ Unmatched /\ argc = 0) =>
    IF msg.s = "bang"
    THEN /\ "commit" \in Steps(rlog)
         /\ callable => "process" \in Steps(rlog)
         /\ "generic" \notin Steps(rlog)
    ELSE rlog = <<"generic">>

Wit_C12_BangOrGeneric ==
  /\ Completed /\ Unmatched /\ argc = 0
  /\ msg.s = "bang" /\ rlog = <<"process", "commit">>

\* what C13 expects process to have done for an event that reaches processing
ExpectedSteps ==
  (IF argc > 0 THEN <<"first_inlet">> ELSE <<>>)
    \o (IF callable THEN <<"process">> ELSE <<>>)
    \o <<"commit">>

\* C13: for an unmatched event that reaches processing (a bang without
\* arguments, or any event with arguments) the steps are, in this order and
\* each at most once: first-inlet routing (with arguments only), the
\* processing operation (when T defines one), the commit (exactly once).
Thm_C13_StepOrder ==
  (Unmatched /\ (argc > 0 \/ msg.s = "bang")) =>
    /\ IsPrefix(rlog, ExpectedSteps)
    /\ rpc = "idle" => rlog = ExpectedSteps

Wit_C13_StepOrder ==
  /\ Completed /\ Unmatched /\ argc > 0
  /\ ~callable /\ ~has_inputs
  /\ rlog = <<"first_inlet", "commit">>

\* C14 as stated: after first-inlet routing, a numeric argument 0 has been
\* assigned to a numeric first field and has left any other first field
\* unchanged; a string argument 0 has been assigned to a string first field
\* and has left any other first field unchanged; an argument of another type
\* has changed nothing.
CE_C14_TypedRouting ==
  (has_inputs /\ "first_inlet" \in Steps(rlog)) =>
    LET before == At(inputs_at_entry, 0)
        after == At(inputs, 0)
        arg == At(msg.argv, 0)
    IN CASE arg.a_type = "A_FLOAT" ->
              IF before.t \in {"float", "int", "bool"}
              THEN after = AssignFloat(before, arg.w_float)
              ELSE after = before
         [] arg.a_type = "A_SYMBOL" ->
              IF before.t = "string"
              THEN after = Val("string", 0, arg.w_symbol)
              ELSE after = before
         [] OTHER -> after = before

\* C15: first-inlet routing leaves every input field but the first as it was,
\* and what it does to the first field is what it does for argument 0 alone.
Thm_C15_FirstFieldFirstArg ==
  msg # NoEvent =>
    /\ Len(inputs) = Len(inputs_at_entry)
    /\ \A k \in 2..Len(inputs) : inputs[k] = inputs_at_entry[k]
    /\ "first_inlet" \in Steps(rlog) =>
         inputs = process_first_inlet_control(inputs_at_entry, <<At(msg.argv, 0)>>)
    /\ "first_inlet" \notin Steps(rlog) => inputs = inputs_at_entry

Wit_C15_FirstFieldFirstArg ==
  /\ Completed /\ argc = 2 /\ Len(inputs) = 2
  /\ At(msg.argv, 1).a_type = "A_FLOAT" /\ At(inputs_t, 1) = "float"
  /\ At(inputs, 0) # At(inputs_at_entry, 0)
  /\ At(inputs, 1) = At(inputs_at_entry, 1)

\* what C20 expects init to do on an object of T, in order
InitSteps ==
  (IF can_initialize THEN <<"init_setup">> ELSE <<>>)
    \o <<"input_setup", "output_setup">>
    \o (IF has_inputs THEN <<"init_controls">> ELSE <<>>)

\* C20: init runs once on an object, at creation: it performs its steps in
\* the order initialisation arguments (when T accepts them), inlets, outlets,
\* controls (when T has inputs), never more than once; the host holds the
\* object, and an event is routed to it, only after all of them are done.
Thm_C20_InitOnceBeforeProcess ==
  /\ IsPrefix(init_log, InitSteps)
  /\ returned => init_log = InitSteps
  /\ (msg # NoEvent \/ rpc # "idle") => (returned /\ init_log = InitSteps)

Wit_C20_InitOnceBeforeProcess ==
  /\ Completed /\ "commit" \in Steps(rlog)
  /\ can_initialize /\ has_inputs
  /\ init_log = <<"init_setup", "input_setup", "output_setup", "init_controls">>

\* ---- the pre-run pass
\* the field of the last call of the pass and its position in the record
LastIdx == run_idx - 1
LastField == At(proc_type, LastIdx)

\* the position of field k among the controls of the record
SubsetPosition(k) == Cardinality({j \in 0..(k - 1) : control(At(proc_type, j))})

\* the fields other than the one of the last call are as they were
OthersUnchanged ==
  \A k \in 1..Len(ctrl) : k # run_idx => ctrl[k] = ctrl_before[k]

\* C22: whatever the host value, marshalling it into an enum-ish field
\* leaves the value of the field as it was: the incoming value is dropped.
Thm_C22_EnumIshDropped ==
  /\ \A k \in 1..Len(proc_type) :
       enum_ish_parameter(proc_type[k]) =>
         /\ ctrl[k] = DefaultValue("enum")
         /\ \A src \in HostValues : from_ossia_value(proc_type[k], src, ctrl[k]) = ctrl[k]
  /\ (run_idx > 0 /\ enum_ish_parameter(LastField)) =>
       ctrl[run_idx] = ctrl_before[run_idx]

Wit_C22_EnumIshDropped ==
  /\ run_idx > 0 /\ enum_ish_parameter(LastField)
  /\ port = <<Val("float", -15, <<>>), Val("int", 2, <<>>)>>
  /\ ctrl[run_idx] = Val("enum", 0, <<>>)

\* C23 as stated: the pre-run of a control with a non-empty queue sets the
\* value of the field from the last queued value, for every control.
CE_C23_ValueFromLast ==
  (run_idx > 0 /\ control(LastField) /\ port # <<>>) =>
    ctrl[run_idx] = Val(ctrl_before[run_idx].t, convert_int(port[Len(port)]), <<>>)

\* C23: the pre-run of a control whose queue is empty leaves the values and
\* every bit as they were; with a non-empty queue the field is given what the
\* marshaller makes of the last queued value, the earlier ones being
\* ignored, which for an enum-ish control is the value it had; one
\* bit is set, enum-ish or not, at the position of the control among the
\* controls, which is not its position in the record when a field that is not
\* a control precedes it.
Thm_C23_PreRunControl ==
  (run_idx > 0 /\ control(LastField)) =>
    /\ OthersUnchanged
    /\ port = <<>> => (ctrl = ctrl_before /\ inputs_set = inputs_set_before)
    /\ port # <<>> =>
         /\ ctrl[run_idx] = IF enum_ish_parameter(LastField)
                            THEN ctrl_before[run_idx]
                            ELSE Val("int", convert_int(port[Len(port)]), <<>>)
         /\ inputs_set = inputs_set_before \cup {SubsetPosition(LastIdx)}
         /\ (\E j \in 0..(LastIdx - 1) : ~control(At(proc_type, j))) =>
              (SubsetPosition(LastIdx) # LastIdx /\ LastIdx \notin inputs_set)

Wit_C23_PreRunControl ==
  /\ proc_type = <<"audio_port", "float_port", "int_control">>
  /\ run_idx = 3
  /\ port = <<Val("int", 2, <<>>), Val("float", -15, <<>>)>>
  /\ ctrl[3] = Val("int", -1, <<>>)
  /\ inputs_set = {0}

\* ---- channel isolation of the mono adapter
\* What an instance and its output channel become when the instance is run
\* on the samples of one channel and on nothing else.
RECURSIVE RunAlone(_, _, _, _)
RunAlone(kind, samples, ref, outs) ==
  IF samples = <<>> THEN [ref |-> ref, outs |-> outs]
  ELSE LET r == process_0(kind, Head(samples), ref)
       IN RunAlone(kind, Tail(samples), r.ref, Append(outs, r.out))

\* how many frames instance k has processed so far
Processed(k) == Cardinality({q \in Events("fx") : trace[q].ch = k})

\* instance k run on the first frames of input channel k as the host gave
\* them, from the state it was constructed in
Isolated(k) ==
  RunAlone(fx_kind, SubSeq(mem_at_entry[At(in_ptr, k)], 1, Processed(k)),
           NewInstance(MonoIns, MonoOuts), <<>>)

\* C24: with one instance per channel, instance k is given the samples of
\* input channel k only and what it returns is written to output channel k
\* only; the state of instance k and the samples written to out[k] are those
\* of instance k run alone on in[k] from its prior state, so they are the
\* same in two calls that differ in the input of another channel only.
Thm_C24_MonoChannelIsolation ==
  (adapter = "mono" /\ Len(in_ptr) = Len(out_ptr)) =>
    /\ \A q \in Events("fx") :
         /\ trace[q].val = Load(mem_at_entry, in_ptr, trace[q].ch, trace[q].frame)
         /\ trace[q + 1].op = "write" /\ trace[q + 1].ch = trace[q].ch
         /\ trace[q + 1].frame = trace[q].frame
    /\ \A k \in 0..(Len(effects) - 1) :
         IF k < channels
         THEN /\ At(effects, k) = Isolated(k).ref
              /\ SubSeq(mem[At(out_ptr, k)], 1, Processed(k)) = Isolated(k).outs
              /\ \A f \in Processed(k)..(n - 1) :
                   Load(mem, out_ptr, k, f) = Load(mem_at_entry, out_ptr, k, f)
         ELSE At(effects, k) = NewInstance(MonoIns, MonoOuts)

\* two channels and two instances with a delay of one frame, the output
\* channels being the input channels swapped: out[0] holds in[0] delayed and
\* instance 0 holds the last sample of in[0], out[1] and instance 1 those of
\* in[1]
Wit_C24_MonoChannelIsolation ==
  /\ adapter = "mono" /\ pc = "done" /\ fx_kind = "delay"
  /\ channels = 2 /\ n = 2 /\ Len(effects) = 2
  /\ out_ptr = <<1, 0>>
  /\ mem[1] = <<0, Tag(0, 0)>> /\ mem[0] = <<0, Tag(1, 0)>>
  /\ At(effects, 0).st = Tag(0, 1) /\ At(effects, 1).st = Tag(1, 1)

=============================================================================
